---------------------------- MODULE Spec2Model ----------------------------
(* Model of the two renderer plugins of the FreeCAD Render workbench:      *)
(* renderers/Cycles.py and renderers/Povray.py.                            *)
(*                                                                         *)
(* Text that the code inspects character by character (command lines,     *)
(* stored renderer parameters, file names) is a sequence of one-character  *)
(* strings.  Python exceptions are values: every modelled function returns *)
(* a record [raised |-> <exception name or "None">, val |-> <result>].     *)
(* assert statements are modelled as executed (CPython without -O, which   *)
(* is how FreeCAD runs its workbenches).                                   *)
EXTENDS Integers, Sequences, FiniteSets, TLC

VARIABLES
    params,     \* the preference store "BaseApp/Preferences/Mod/Render"
    spawned,    \* number of os.system calls made so far
    warnings,   \* number of App.Console.PrintWarning calls made so far
    unsupported,\* number of write_object calls made with a tag not in MATERIALS
    sun,        \* the caller's sun direction vector object (passed by reference)
    sun0,       \* value of that object before any write_* call
    last,       \* the last call: operation, arguments, outcome
    doc         \* the scene document under export: for each fragment the
                \* caller has concatenated, its entity and its shader names

vars == <<params, spawned, warnings, unsupported, sun, sun0, last, doc>>

-----------------------------------------------------------------------------
(* Bounds *)

MaxSpawn == 2
MaxEmit == 2

-----------------------------------------------------------------------------
(* Python str, as sequences of characters *)

Digits == <<"0", "1", "2", "3", "4", "5", "6", "7", "8", "9">>

IsDigit(c) == \E i \in 1..10 : Digits[i] = c

RECURSIVE IntToStr(_)
\* str(n) for a non-negative int
IntToStr(n) ==
    IF n < 10 THEN <<Digits[n + 1]>>
    ELSE IntToStr(n \div 10) \o <<Digits[(n % 10) + 1]>>

\* sub in s
Contains(s, sub) ==
    \E i \in 1..(Len(s) - Len(sub) + 1) : SubSeq(s, i, i + Len(sub) - 1) = sub

\* s.count(sub), for the non-self-overlapping sub used here
CountOcc(s, sub) ==
    Cardinality({i \in 1..(Len(s) - Len(sub) + 1) :
                    SubSeq(s, i, i + Len(sub) - 1) = sub})

RECURSIVE DigitsEnd(_, _)
\* index of the last character of the maximal run of digits starting at i
\* (i - 1 when s[i] is no digit)
DigitsEnd(s, i) ==
    IF i <= Len(s) /\ IsDigit(s[i]) THEN DigitsEnd(s, i + 1) ELSE i - 1

RECURSIVE ReSubFrom(_, _, _, _)
ReSubFrom(letter, repl, s, i) ==
    IF i > Len(s) THEN << >>
    ELSE IF /\ s[i] = "+"
            /\ i + 2 <= Len(s)
            /\ s[i + 1] = letter
            /\ IsDigit(s[i + 2])
         THEN repl \o ReSubFrom(letter, repl, s, DigitsEnd(s, i + 2) + 1)
         ELSE <<s[i]>> \o ReSubFrom(letter, repl, s, i + 1)

\* re.sub(r"\+<letter>[0-9]+", repl, s)
ReSub(letter, repl, s) == ReSubFrom(letter, repl, s, 1)

\* index of the last occurrence of character c in s, 0 when there is none
LastIndexOf(s, c) ==
    IF \E i \in 1..Len(s) : s[i] = c
    THEN CHOOSE i \in 1..Len(s) :
            s[i] = c /\ \A j \in (i + 1)..Len(s) : s[j] # c
    ELSE 0

\* os.path.splitext(p)[0]: p without its extension; the extension starts at
\* the last dot of the last path component, leading dots of that component
\* not counting
SplitExtRoot(p) ==
    LET sep == LastIndexOf(p, "/")
        dot == LastIndexOf(p, ".")
        lead == \A j \in (sep + 1)..(dot - 1) : p[j] = "."
    IN IF dot > sep /\ ~lead THEN SubSeq(p, 1, dot - 1) ELSE p

StrSpace == <<" ">>
StrPng == <<".", "p", "n", "g">>
StrPlusW == <<"+", "W">>
StrPlusH == <<"+", "H">>
StrPlusO == <<"+", "O">>
StrOutputOpt == <<" ", "-", "-", "o", "u", "t", "p", "u", "t", " ">>
StrBackgroundOpt == <<" ", "-", "-", "b", "a", "c", "k", "g", "r", "o", "u", "n", "d">>
StrWidthOpt == <<" ", "-", "-", "w", "i", "d", "t", "h", " ">>
StrHeightOpt == <<" ", "-", "-", "h", "e", "i", "g", "h", "t", " ">>
StrNewline == <<"\n">>
StrRendererCommand ==
    <<"R", "e", "n", "d", "e", "r", "e", "r", " ",
      "c", "o", "m", "m", "a", "n", "d", ":", " ">>

-----------------------------------------------------------------------------
(* Inputs of render *)

Prefixes == {<< >>, <<"n", "i", "c", "e">>}
CyclesPaths == {<< >>, <<"c", "y", "c", "l", "e", "s">>}
PovRayPaths == {<< >>, <<"p", "o", "v", "r", "a", "y">>}
CyclesParametersSet ==
    {<< >>,
     <<"-", "-", "w", "i", "d", "t", "h", " ", "8", "0", "0", " ",
       "-", "-", "h", "e", "i", "g", "h", "t", " ", "6", "0", "0">>}
PovRayParametersSet ==
    {<< >>,
     <<"+", "W", "8", "0", "0", " ", "+", "H", "6", "0", "0">>,
     <<"+", "W", "T", "2">>}

ParamsSet ==
    [Prefix : Prefixes,
     CyclesPath : CyclesPaths,
     CyclesParameters : CyclesParametersSet,
     PovRayPath : PovRayPaths,
     PovRayParameters : PovRayParametersSet]

\* project.PageResult: the path of the scene file written by the exporter
Projects == {[PageResult |-> <<"t", "/", "s", ".", "p", "o", "v">>]}
PrefixArgs == {<< >>, <<"t", "i", "m", "e">>}
Outputs == {<< >>, <<"o", ".", "p", "n", "g">>}
Widths == {800, 1024}
Heights == {600, 768}
\* the exit status os.system returns for the spawned renderer
ExitStatuses == {0, 1}

NoCall == [op |-> "none"]

-----------------------------------------------------------------------------
(* Cycles.render *)

CyclesPrefix(prm, prefix) ==
    LET p == prm.Prefix IN IF p # << >> THEN p \o StrSpace ELSE p

\* the command line handed to os.system
CyclesCmd(prm, project, prefix, external, output, width, height) ==
    LET a1 == prm.CyclesParameters \o StrOutputOpt \o output
        a2 == IF ~external THEN a1 \o StrBackgroundOpt ELSE a1
        a3 == a2 \o StrWidthOpt \o IntToStr(width)
        a4 == a3 \o StrHeightOpt \o IntToStr(height)
    IN CyclesPrefix(prm, prefix) \o prm.CyclesPath \o StrSpace \o a4
            \o StrSpace \o project.PageResult

\* what a render call does to the console and the operating system, in order
PrintError == [e |-> "PrintError"]
PrintMessage(text) == [e |-> "PrintMessage", text |-> text]
System(cmd, status) == [e |-> "system", cmd |-> cmd, status |-> status]
Return(val) == [e |-> "return", val |-> val]

\* Cycles.render with the test of the executable path made after os.system
CyclesRenderSpawnFirst(prm, project, prefix, external, output, width, height, status) ==
    LET cmd == CyclesCmd(prm, project, prefix, external, output, width, height)
        ret == IF prm.CyclesPath = << >> THEN << >> ELSE output
    IN [ret |-> ret,
        spawn |-> TRUE,
        cmd |-> cmd,
        error |-> prm.CyclesPath = << >>,
        events |-> <<PrintMessage(cmd \o StrNewline), System(cmd, status),
                     Return(ret)>>]

\* outcome of Cycles.render: spawn is TRUE when os.system is called, status
\* is what os.system then returns
CyclesRender(prm, project, prefix, external, output, width, height, status) ==
    IF prm.CyclesPath = << >>
    THEN [ret |-> << >>, spawn |-> FALSE, cmd |-> << >>, error |-> TRUE,
          events |-> <<PrintError, Return(<< >>)>>]
    ELSE LET cmd == CyclesCmd(prm, project, prefix, external, output, width,
                              height)
         IN [ret |-> output, spawn |-> TRUE, cmd |-> cmd, error |-> FALSE,
             events |-> <<PrintMessage(cmd \o StrNewline), System(cmd, status),
                          Return(output)>>]

-----------------------------------------------------------------------------
(* Povray.render *)

PovrayPrefix(prm, prefix) ==
    LET p == prm.Prefix IN IF p # << >> THEN p \o StrSpace ELSE p

PovrayArgs(prm, output, width, height) ==
    LET a0 == prm.PovRayParameters
        a1 == IF a0 # << >> THEN a0 \o StrSpace ELSE a0
        a2 == IF Contains(a1, StrPlusW)
              THEN ReSub("W", StrPlusW \o IntToStr(width), a1)
              ELSE a1 \o StrPlusW \o IntToStr(width) \o StrSpace
        a3 == IF Contains(a2, StrPlusH)
              THEN ReSub("H", StrPlusH \o IntToStr(height), a2)
              ELSE a2 \o StrPlusH \o IntToStr(height) \o StrSpace
    IN IF output # << >> THEN a3 \o StrPlusO \o output \o StrSpace ELSE a3

PovrayCmd(prm, project, prefix, external, output, width, height) ==
    PovrayPrefix(prm, prefix) \o prm.PovRayPath \o StrSpace
        \o PovrayArgs(prm, output, width, height) \o project.PageResult

PovrayLog(cmd) == StrRendererCommand \o cmd \o StrNewline

\* Povray.render giving up its result when the renderer exits with an error
PovrayRenderStatusChecked(prm, project, prefix, external, output, width, height, status) ==
    IF prm.PovRayPath = << >>
    THEN [ret |-> << >>, spawn |-> FALSE, cmd |-> << >>, error |-> TRUE,
          events |-> <<PrintError, Return(<< >>)>>]
    ELSE LET cmd == PovrayCmd(prm, project, prefix, external, output, width,
                              height)
             out == IF output # << >> THEN output
                    ELSE SplitExtRoot(project.PageResult) \o StrPng
             ret == IF status = 0 THEN out ELSE << >>
         IN [ret |-> ret, spawn |-> TRUE, cmd |-> cmd, error |-> FALSE,
             events |-> <<PrintMessage(PovrayLog(cmd)), System(cmd, status),
                          Return(ret)>>]

PovrayRender(prm, project, prefix, external, output, width, height, status) ==
    IF prm.PovRayPath = << >>
    THEN [ret |-> << >>, spawn |-> FALSE, cmd |-> << >>, error |-> TRUE,
          events |-> <<PrintError, Return(<< >>)>>]
    ELSE LET cmd == PovrayCmd(prm, project, prefix, external, output, width,
                              height)
             ret == IF output # << >> THEN output
                    ELSE SplitExtRoot(project.PageResult) \o StrPng
         IN [ret |-> ret, spawn |-> TRUE, cmd |-> cmd, error |-> FALSE,
             events |-> <<PrintMessage(PovrayLog(cmd)), System(cmd, status),
                          Return(ret)>>]

-----------------------------------------------------------------------------
(* Actions: render *)

RenderCall(backend, project, prefix, external, output, width, height, status, r) ==
    [op |-> "render", backend |-> backend, project |-> project,
     prefix |-> prefix, external |-> external, output |-> output,
     width |-> width, height |-> height, status |-> status,
     events |-> r.events,
     rpath |-> IF backend = "Cycles" THEN params.CyclesPath ELSE params.PovRayPath,
     ret |-> r.ret, cmd |-> r.cmd, error |-> r.error, spawn |-> r.spawn,
     spawnedBefore |-> spawned]

RenderCycles ==
    \E project \in Projects, prefix \in PrefixArgs, external \in BOOLEAN,
       output \in Outputs, width \in Widths, height \in Heights,
       status \in ExitStatuses :
        LET r == CyclesRender(params, project, prefix, external, output,
                              width, height, status)
        IN /\ spawned < MaxSpawn
           /\ spawned' = IF r.spawn THEN spawned + 1 ELSE spawned
           /\ last' = RenderCall("Cycles", project, prefix, external, output,
                                 width, height, status, r)
           /\ UNCHANGED <<params, warnings, unsupported, sun, sun0, doc>>

RenderPovray ==
    \E project \in Projects, prefix \in PrefixArgs, external \in BOOLEAN,
       output \in Outputs, width \in Widths, height \in Heights,
       status \in ExitStatuses :
        LET r == PovrayRender(params, project, prefix, external, output,
                              width, height, status)
        IN /\ spawned < MaxSpawn
           /\ spawned' = IF r.spawn THEN spawned + 1 ELSE spawned
           /\ last' = RenderCall("Povray", project, prefix, external, output,
                                 width, height, status, r)
           /\ UNCHANGED <<params, warnings, unsupported, sun, sun0, doc>>

-----------------------------------------------------------------------------
(* Python values used by the write_* functions *)

\* A number n stands for n/10 (colour channels, material coefficients).
Num(n) == [t |-> "num", v |-> n]
StrVal == [t |-> "str", v |-> 0]     \* a non-numeric str, float() -> ValueError
NoneVal == [t |-> "none", v |-> 0]   \* None, float() -> TypeError

Ok(v) == [raised |-> "None", val |-> v]
Raise(e) == [raised |-> e, val |-> << >>]

\* float(x)
Float(x) ==
    IF x.t = "num" THEN Ok(x.v)
    ELSE IF x.t = "str" THEN Raise("ValueError")
    ELSE Raise("TypeError")

\* obj.attr
GetAttr(obj, attr) ==
    IF attr \in DOMAIN obj THEN Ok(obj[attr]) ELSE Raise("AttributeError")

RGB(r, g, b) == [r |-> r, g |-> g, b |-> b]

White == <<10, 10, 10>>

\* Entity names; "{n}_shader" is n \o <<"_shader">>
Names == {<<"a">>, <<"a", "_shader">>}

-----------------------------------------------------------------------------
(* str.format on a passthrough template *)

\* A template is a sequence of literal text, named replacement fields
\* "{s}" or "{s.a}", and positional fields "{0}".
Lit(s) == [t |-> "lit", s |-> s, a |-> ""]
Field(s, a) == [t |-> "field", s |-> s, a |-> a]
Index == [t |-> "index", s |-> "0", a |-> ""]

\* formatting of one token with the keyword arguments n=name, c=color
FormatToken(tok, name, color) ==
    IF tok.t = "lit" THEN Ok([t |-> "lit", s |-> tok.s])
    ELSE IF tok.t = "index" THEN Raise("IndexError")
    ELSE IF tok.s = "n"
         THEN IF tok.a = "" THEN Ok([t |-> "name", n |-> name])
              ELSE Raise("AttributeError")
    ELSE IF tok.s = "c"
         THEN IF tok.a = "" THEN Ok([t |-> "color", c |-> color])
              ELSE IF tok.a \in DOMAIN color
                   THEN Ok([t |-> "chan", c |-> color[tok.a]])
                   ELSE Raise("AttributeError")
    ELSE Raise("KeyError")

RECURSIVE FormatFrom(_, _, _, _)
FormatFrom(tpl, i, name, color) ==
    IF i > Len(tpl) THEN Ok(<< >>)
    ELSE LET h == FormatToken(tpl[i], name, color)
         IN IF h.raised # "None" THEN Raise(h.raised)
            ELSE LET r == FormatFrom(tpl, i + 1, name, color)
                 IN IF r.raised # "None" THEN r
                    ELSE Ok(<<h.val>> \o r.val)

\* snippet.format(n=name, c=color)
Format(tpl, name, color) == FormatFrom(tpl, 1, name, color)

\* textwrap.indent(text, "    ") of a one-line template
Indent(tpl) == IF tpl = << >> THEN tpl ELSE <<Lit("    ")>> \o tpl

-----------------------------------------------------------------------------
(* Cycles: material implementation *)

\* _write_material_passthrough
WriteMaterialPassthrough(name, material) ==
    IF material.passthrough.renderer # "Cycles" THEN Raise("AssertionError")
    ELSE LET r == Format(Indent(material.passthrough.string), name,
                         material.default_color)
         IN IF r.raised # "None" THEN r
            ELSE Ok([kind |-> "passthrough", text |-> r.val])

\* _write_material_glass
WriteMaterialGlass(name, material) ==
    Ok([kind |-> "glass", shader |-> name, bsdf |-> name \o <<"_bsdf">>,
        ior |-> material.glass.ior,
        color |-> <<material.glass.color.r, material.glass.color.g,
                    material.glass.color.b>>])

\* _write_material_disney
WriteMaterialDisney(name, material) ==
    LET d == material.disney
        g == Float(d.clearcoatgloss)
    IN IF g.raised # "None" THEN g
       ELSE Ok([kind |-> "disney", shader |-> name, bsdf |-> name \o <<"_bsdf">>,
                base_color |-> <<d.basecolor.r, d.basecolor.g, d.basecolor.b>>,
                subsurface |-> d.subsurface, metallic |-> d.metallic,
                specular |-> d.specular, specular_tint |-> d.speculartint,
                roughness |-> d.roughness, anisotropic |-> d.anisotropic,
                sheen |-> d.sheen, sheen_tint |-> d.sheentint,
                clearcoat |-> d.clearcoat,
                clearcoat_roughness |-> 10 - g.val])

\* _write_material_diffuse
WriteMaterialDiffuse(name, material) ==
    Ok([kind |-> "diffuse", shader |-> name, bsdf |-> name \o <<"_bsdf">>,
        color |-> <<material.diffuse.color.r, material.diffuse.color.g,
                    material.diffuse.color.b>>])

\* _write_material_mixed
WriteMaterialMixed(name, material) ==
    LET m == material.mixed
    IN Ok([kind |-> "mixed", shader |-> name,
           glass_bsdf |-> name \o <<"_glass_bsdf">>,
           diffuse_bsdf |-> name \o <<"_diffuse_bsdf">>,
           closure |-> name \o <<"_closure">>,
           ior |-> m.glass.ior,
           glass_color |-> <<m.glass.color.r, m.glass.color.g, m.glass.color.b>>,
           diffuse_color |-> <<m.diffuse.color.r, m.diffuse.color.g,
                               m.diffuse.color.b>>,
           fac |-> m.transparency])

\* the try block of _write_material_fallback: the three channels of
\* material.default_color as floats, asserted to lie in [0, 1]
FallbackChannels(material) ==
    LET dc == GetAttr(material, "default_color")
    IN IF dc.raised # "None" THEN dc
       ELSE LET ar == GetAttr(dc.val, "r")
                ag == GetAttr(dc.val, "g")
                ab == GetAttr(dc.val, "b")
            IN IF ar.raised # "None" THEN ar
               ELSE IF Float(ar.val).raised # "None" THEN Float(ar.val)
               ELSE IF ag.raised # "None" THEN ag
               ELSE IF Float(ag.val).raised # "None" THEN Float(ag.val)
               ELSE IF ab.raised # "None" THEN ab
               ELSE IF Float(ab.val).raised # "None" THEN Float(ab.val)
               ELSE LET red == Float(ar.val).val
                        grn == Float(ag.val).val
                        blu == Float(ab.val).val
                    IN IF /\ 0 <= red /\ red <= 10
                          /\ 0 <= grn /\ grn <= 10
                          /\ 0 <= blu /\ blu <= 10
                       THEN Ok(<<red, grn, blu>>)
                       ELSE Raise("AssertionError")

\* _write_material_fallback
WriteMaterialFallback(name, material) ==
    LET ch == FallbackChannels(material)
        col == IF ch.raised \in {"AttributeError", "ValueError", "TypeError",
                                 "AssertionError"}
               THEN White ELSE ch.val
    IN Ok([kind |-> "fallback", shader |-> name, bsdf |-> name \o <<"_bsdf">>,
           color |-> col])

\* keys of the MATERIALS table
MATERIALS == {"Passthrough", "Glass", "Disney", "Diffuse", "Mixed"}

\* MATERIALS[tag](name, material)
MaterialsCall(tag, name, material) ==
    IF tag \notin MATERIALS THEN Raise("KeyError")
    ELSE IF tag = "Passthrough" THEN WriteMaterialPassthrough(name, material)
    ELSE IF tag = "Glass" THEN WriteMaterialGlass(name, material)
    ELSE IF tag = "Disney" THEN WriteMaterialDisney(name, material)
    ELSE IF tag = "Diffuse" THEN WriteMaterialDiffuse(name, material)
    ELSE WriteMaterialMixed(name, material)

\* the argument _write_material hands to _write_material_fallback
FallbackArg(material) == material.default_color

\* _write_material: warned is TRUE when PrintWarning is called
WriteMaterial(name, material) ==
    LET r == MaterialsCall(material.shadertype, name, material)
    IN IF r.raised = "KeyError"
       THEN LET f == WriteMaterialFallback(name, FallbackArg(material))
            IN [raised |-> f.raised, val |-> f.val, warned |-> TRUE,
                warning |-> [name |-> name, tag |-> material.shadertype]]
       ELSE [raised |-> r.raised, val |-> r.val, warned |-> FALSE,
             warning |-> [name |-> name, tag |-> material.shadertype]]

-----------------------------------------------------------------------------
(* App.Vector, App.Rotation, App.Placement *)

\* A vector [x, y, z, den] stands for (x/den, y/den, z/den), den > 0, in
\* lowest terms.
Abs(n) == IF n < 0 THEN -n ELSE n

RECURSIVE GCD(_, _)
GCD(a, b) == IF b = 0 THEN a ELSE GCD(b, a % b)

Reduce(x, y, z, den) ==
    LET g == GCD(GCD(GCD(Abs(x), Abs(y)), Abs(z)), den)
    IN [x |-> x \div g, y |-> y \div g, z |-> z \div g, den |-> den \div g]

Vec(x, y, z) == [x |-> x, y |-> y, z |-> z, den |-> 1]

\* integer square root; the vectors used have rational lengths
ISqrt(n) == CHOOSE k \in 0..n : k * k <= n /\ (k + 1) * (k + 1) > n

Norm2(v) == v.x * v.x + v.y * v.y + v.z * v.z

IsNull(v) == Norm2(v) = 0

\* the vector normalized to length 1 (v not null)
Normalized(v) == Reduce(v.x, v.y, v.z, ISqrt(Norm2(v)))

\* the vector scaled to length d (v not null)
WithLength(v, d) == Reduce(v.x * d, v.y * d, v.z * d, ISqrt(Norm2(v)))

VAdd(u, v) ==
    Reduce(u.x * v.den + v.x * u.den, u.y * v.den + v.y * u.den,
           u.z * v.den + v.z * u.den, u.den * v.den)

\* u.cross(v)
Cross(u, v) ==
    Reduce(u.y * v.z - u.z * v.y, u.z * v.x - u.x * v.z,
           u.x * v.y - u.y * v.x, u.den * v.den)

\* rot.multVec(v), for the identity and a quarter turn about Z
RotMultVec(rot, v) ==
    IF rot = "z90" THEN [x |-> -v.y, y |-> v.x, z |-> v.z, den |-> v.den]
    ELSE v

\* placement.multVec(v)
PlcMultVec(pos, v) == VAdd(RotMultVec(pos.Rotation, v), pos.Base)

\* "{0.x} {0.y} {0.z}".format(v)
XYZ(v) == [c1 |-> v.x, c2 |-> v.y, c3 |-> v.z, den |-> v.den]

\* "<{0.x},{0.z},{0.y}>".format(v)
XZY(v) == [c1 |-> v.x, c2 |-> v.z, c3 |-> v.y, den |-> v.den]

-----------------------------------------------------------------------------
(* Cycles: write functions *)

\* write_object.  The material snippet is computed first; an exception of
\* _write_material leaves write_object.
CyclesWriteObject(name, mesh, material) ==
    LET m == WriteMaterial(name, material)
        verts == mesh.Facets
    IN [raised |-> m.raised, warned |-> m.warned, warning |-> m.warning,
        mat |-> m.val,
        val |-> IF m.raised # "None" THEN << >>
                ELSE [state_shader |-> name,
                      P |-> [i \in 1..Len(mesh.Points) |-> XYZ(mesh.Points[i])],
                      nverts |-> [i \in 1..Len(verts) |-> "3"],
                      verts |-> verts]]

\* write_arealight's strength with the opaque light not divided by its area
ArealightStrengthNoArea(size_u, size_v, power, transparent) ==
    IF ~transparent /\ size_u * size_v = 0 THEN Raise("ZeroDivisionError")
    ELSE Ok([num |-> power * 100, den |-> 1])

\* the strength computed by write_arealight, times 100, as the fraction
\* num/den
ArealightStrength(size_u, size_v, power, transparent) ==
    IF transparent THEN Ok([num |-> power * 100, den |-> 1])
    ELSE IF size_u * size_v = 0 THEN Raise("ZeroDivisionError")
    ELSE Ok([num |-> power * 100, den |-> size_u * size_v])

\* write_arealight
CyclesWriteArealight(name, pos, size_u, size_v, color, power, transparent) ==
    LET rot == pos.Rotation
        axis1 == RotMultVec(rot, Vec(1, 0, 0))
        axis2 == RotMultVec(rot, Vec(0, 1, 0))
        direction == Cross(axis1, axis2)
        corners == << Reduce(-size_u, -size_v, 0, 2), Reduce(size_u, -size_v, 0, 2),
                      Reduce(size_u, size_v, 0, 2), Reduce(-size_u, size_v, 0, 2) >>
        points == [i \in 1..4 |-> XYZ(PlcMultVec(pos, corners[i]))]
        s == ArealightStrength(size_u, size_v, power, transparent)
        shader == name \o <<"_shader">>
    IN IF s.raised # "None" THEN s
       ELSE IF transparent
       THEN Ok([kind |-> "area", shader |-> shader, state_shader |-> shader,
                emit |-> name \o <<"_emit">>, color |-> color,
                strength |-> s.val, co |-> XYZ(pos.Base),
                axisu |-> XYZ(axis1), axisv |-> XYZ(axis2),
                sizeu |-> size_u, sizev |-> size_v, dir |-> XYZ(direction)])
       ELSE Ok([kind |-> "mesh", shader |-> shader, state_shader |-> shader,
                emit |-> name \o <<"_emit">>, color |-> color,
                strength |-> s.val, P |-> points])

\* math.asin of the fraction e.num/e.den, where it is a multiple of pi/2:
\* halfpi is that multiple (asin(1) = pi/2, asin(0) = 0, asin(-1) = -pi/2)
AsinValue(e) ==
    IF e.num = e.den THEN [exact |-> TRUE, halfpi |-> 1]
    ELSE IF e.num = 0 THEN [exact |-> TRUE, halfpi |-> 0]
    ELSE IF e.num = -e.den THEN [exact |-> TRUE, halfpi |-> -1]
    ELSE [exact |-> FALSE, halfpi |-> 0]

\* write_sunskylight with the elevation taken from the y component
CyclesWriteSunskylightY(name, direction, distance, turbidity, albedo) ==
    IF IsNull(direction) THEN Raise("AssertionError")
    ELSE LET dir == Normalized(direction)
             len == ISqrt(Norm2(dir)) \div dir.den
         IN Ok([kind |-> "sunsky", bg |-> name \o <<"_bg">>,
                tex |-> name \o <<"_tex">>,
                turbidity |-> turbidity, ground_albedo |-> albedo,
                sun_elevation |-> [fn |-> "asin", num |-> dir.y,
                                   den |-> dir.den * len],
                sun_rotation |-> [fn |-> "atan2", a |-> dir.x, b |-> dir.y,
                                  den |-> dir.den]])

\* write_sunskylight: the direction is copied before it is normalized
CyclesWriteSunskylight(name, direction, distance, turbidity, albedo) ==
    IF IsNull(direction) THEN Raise("AssertionError")
    ELSE LET dir == Normalized(direction)
             len == ISqrt(Norm2(dir)) \div dir.den
         IN Ok([kind |-> "sunsky", bg |-> name \o <<"_bg">>,
                tex |-> name \o <<"_tex">>,
                turbidity |-> turbidity, ground_albedo |-> albedo,
                sun_elevation |-> [fn |-> "asin", num |-> dir.z,
                                   den |-> dir.den * len],
                sun_rotation |-> [fn |-> "atan2", a |-> dir.x, b |-> dir.y,
                                  den |-> dir.den]])

-----------------------------------------------------------------------------
(* Povray: write functions *)

\* direction.normalize(): normalizes the vector object itself and returns
\* it; a null vector cannot be normalized
VectorNormalize(v) ==
    IF IsNull(v) THEN Raise("FreeCADError") ELSE Ok(Normalized(v))

\* write_sunskylight: "after" is the caller's direction object when the
\* call ends
PovrayWriteSunskylight(name, direction, distance, turbidity) ==
    LET n == VectorNormalize(direction)
    IN IF n.raised # "None"
       THEN [raised |-> n.raised, val |-> << >>, after |-> direction]
       ELSE LET location == WithLength(n.val, distance)
            IN [raised |-> "None",
                val |-> [kind |-> "sunsky", light_source |-> XZY(location)],
                after |-> location]

-----------------------------------------------------------------------------
(* The remaining write functions *)

\* degrees(rot.Angle)
RotAngleDegrees(rot) == IF rot = "z90" THEN 90 ELSE 0

\* rot.Axis
RotAxis(rot) == Vec(0, 0, 1)

\* Cycles write_camera
CyclesWriteCamera(name, pos, updir, target, fov) ==
    Ok([kind |-> "camera", name |-> name,
        rotate_angle |-> RotAngleDegrees(pos.Rotation),
        rotate_axis |-> XYZ(RotAxis(pos.Rotation)),
        translate |-> XYZ(pos.Base),
        fov |-> [fn |-> "radians", deg |-> fov]])

\* Cycles write_pointlight
CyclesWritePointlight(name, pos, color, power) ==
    Ok([kind |-> "point", shader |-> name \o <<"_shader">>,
        state_shader |-> name \o <<"_shader">>,
        emit |-> name \o <<"_emit">>, color |-> color,
        strength |-> power * 100, co |-> XYZ(pos)])

RECURSIVE StripTail(_)
\* the path without its trailing separators and "." components
StripTail(p) ==
    IF p = << >> THEN p
    ELSE IF p[Len(p)] = "/" THEN StripTail(SubSeq(p, 1, Len(p) - 1))
    ELSE IF p[Len(p)] = "." /\ (Len(p) = 1 \/ p[Len(p) - 1] = "/")
         THEN StripTail(SubSeq(p, 1, Len(p) - 1))
    ELSE p

\* pathlib.Path(p).name: the last component of the path
PathName(p) ==
    LET q == StripTail(p) IN SubSeq(q, LastIndexOf(q, "/") + 1, Len(q))

\* Cycles write_imagelight with the path embedded as given
CyclesWriteImagelightFullPath(name, image) ==
    Ok([kind |-> "image", bg |-> name \o <<"_bg">>,
        tex |-> name \o <<"_tex">>, filename |-> image])

\* Cycles write_imagelight
CyclesWriteImagelight(name, image) ==
    Ok([kind |-> "image", bg |-> name \o <<"_bg">>,
        tex |-> name \o <<"_tex">>, filename |-> PathName(image)])

\* Povray write_object; mesh.getPointNormals() gives one normal per point
PovrayWriteObject(name, mesh, color, alpha) ==
    LET vrts == [i \in 1..Len(mesh.Points) |-> XZY(mesh.Points[i])]
        nrms == [i \in 1..Len(mesh.Normals) |-> XZY(mesh.Normals[i])]
        inds == mesh.Facets
    IN Ok([kind |-> "mesh2", name |-> name,
           len_vertices |-> Len(vrts), vertices |-> vrts,
           len_normals |-> Len(nrms), normals |-> nrms,
           len_indices |-> Len(inds), indices |-> inds,
           color |-> color])

\* Povray write_camera
PovrayWriteCamera(name, pos, updir, target) ==
    Ok([kind |-> "camera", name |-> name,
        cam_location |-> XZY(pos.Base), cam_look_at |-> XZY(target),
        cam_sky |-> XZY(updir), cam_angle |-> 45])

\* Povray write_pointlight with the position written as x, y, z
PovrayWritePointlightXYZ(name, pos, color, power) ==
    Ok([kind |-> "point", name |-> name, location |-> XYZ(pos),
        color |-> color])

\* Povray write_pointlight
PovrayWritePointlight(name, pos, color, power) ==
    Ok([kind |-> "point", name |-> name, location |-> XZY(pos),
        color |-> color])

\* Povray write_arealight
PovrayWriteArealight(name, pos, size_u, size_v, color, power) ==
    LET rot == pos.Rotation
        axis1 == RotMultVec(rot, Vec(size_u, 0, 0))
        axis2 == RotMultVec(rot, Vec(0, size_v, 0))
    IN Ok([kind |-> "area", name |-> name, location |-> XZY(pos.Base),
           color |-> color, axis1 |-> XZY(axis1), axis2 |-> XZY(axis2),
           size_1 |-> 20, size_2 |-> 20])

\* Povray write_imagelight
PovrayWriteImagelight(name, image) ==
    Ok([kind |-> "image", name |-> name, hdr |-> image])

-----------------------------------------------------------------------------
(* Inputs of the write functions *)

DefaultColors ==
    {RGB(Num(5), Num(2), Num(1)),      \* valid
     RGB(Num(5), Num(12), Num(1)),     \* out of range
     RGB(Num(5), StrVal, Num(1)),      \* not numeric
     RGB(NoneVal, Num(2), Num(1))}

NoPassthrough == [renderer |-> "", string |-> << >>]

GoodTemplate == <<Lit("<shader name="), Field("n", ""), Lit(" color="),
                  Field("c", "r"), Lit("/>")>>
UnknownFieldTemplate == <<Lit("<shader name="), Field("n", ""), Lit(" ior="),
                          Field("i", ""), Lit("/>")>>
PositionalTemplate == <<Lit("<shader name="), Index, Lit("/>")>>

Mat(tag, dc, pt) ==
    [shadertype |-> tag, default_color |-> dc, passthrough |-> pt,
     glass |-> [ior |-> 15, color |-> RGB(10, 10, 10)],
     diffuse |-> [color |-> RGB(8, 0, 0)],
     disney |-> [basecolor |-> RGB(8, 8, 8), subsurface |-> 0, metallic |-> 0,
                 specular |-> 5, speculartint |-> 0, roughness |-> 5,
                 anisotropic |-> 0, sheen |-> 0, sheentint |-> 0,
                 clearcoat |-> 0, clearcoatgloss |-> Num(3)],
     mixed |-> [glass |-> [ior |-> 15, color |-> RGB(10, 10, 10)],
                diffuse |-> [color |-> RGB(8, 0, 0)],
                transparency |-> 5]]

Materials ==
    {Mat(tag, RGB(Num(5), Num(2), Num(1)), NoPassthrough) :
        tag \in {"Glass", "Disney", "Diffuse", "Mixed"}}
    \cup {Mat(tag, dc, NoPassthrough) :
            tag \in {"Carpaint", "Substance"}, dc \in DefaultColors}
    \cup {Mat("Passthrough", RGB(Num(5), Num(2), Num(1)),
              [renderer |-> rdr, string |-> tpl]) :
            rdr \in {"Cycles", "Povray"},
            tpl \in {GoodTemplate, UnknownFieldTemplate, PositionalTemplate}}

Meshes ==
    {[Points |-> << >>, Facets |-> << >>, Normals |-> << >>],
     [Points |-> <<Vec(0, 0, 0), Vec(1, 0, 0), Vec(0, 2, 3)>>,
      Facets |-> << <<0, 1, 2>> >>,
      Normals |-> <<Vec(0, -3, 2), Vec(0, -3, 2), Vec(0, -3, 2)>>]}

Placements ==
    {[Base |-> Vec(1, 2, 3), Rotation |-> rot] : rot \in {"id", "z90"}}

Sizes == {0, 1, 2}
Powers == {5, 10}
LightColors == {<<10, 10, 10>>}
SunDirections ==
    {Vec(0, 0, 0), Vec(0, 0, 2), Vec(0, 1, 0), Vec(1, 0, 0), Vec(3, 0, 4)}
Distances == {1, 5}
Turbidities == {2}
Albedos == {3}
ObjectColors == {<<8, 0, 0>>}
Alphas == {10}
Updirs == {Vec(0, 0, 1)}
Targets == {Vec(4, 5, 6)}
Fovs == {40}
PointPositions == {Vec(1, 2, 3)}
Images == {<<"h">>, <<"d", "/", "h">>, <<"d", "/", "e", "/", "h", "/">>}

-----------------------------------------------------------------------------
(* Actions: write functions *)

WriteObjectCycles ==
    \E name \in Names, mesh \in Meshes, material \in Materials :
        LET r == CyclesWriteObject(name, mesh, material)
        IN /\ warnings < MaxEmit
           /\ unsupported < MaxEmit
           /\ warnings' = IF r.warned THEN warnings + 1 ELSE warnings
           /\ unsupported' = IF material.shadertype \notin MATERIALS
                             THEN unsupported + 1 ELSE unsupported
           /\ last' = [op |-> "write_object", backend |-> "Cycles",
                       name |-> name, mesh |-> mesh, material |-> material,
                       raised |-> r.raised, val |-> r.val, mat |-> r.mat,
                       warned |-> r.warned, warning |-> r.warning]
           /\ UNCHANGED <<params, spawned, sun, sun0, doc>>

WriteArealightCycles ==
    \E name \in Names, pos \in Placements, size_u \in Sizes, size_v \in Sizes,
       color \in LightColors, power \in Powers, transparent \in BOOLEAN :
        LET r == CyclesWriteArealight(name, pos, size_u, size_v, color, power,
                                      transparent)
        IN /\ last' = [op |-> "write_arealight", backend |-> "Cycles",
                       name |-> name, pos |-> pos, size_u |-> size_u,
                       size_v |-> size_v, color |-> color, power |-> power,
                       transparent |-> transparent,
                       raised |-> r.raised, val |-> r.val]
           /\ UNCHANGED <<params, spawned, warnings, unsupported, sun, sun0, doc>>

WriteSunskylightCycles ==
    \E name \in Names, distance \in Distances, turbidity \in Turbidities,
       albedo \in Albedos :
        LET r == CyclesWriteSunskylight(name, sun, distance, turbidity, albedo)
        IN /\ last' = [op |-> "write_sunskylight", backend |-> "Cycles",
                       name |-> name, direction |-> sun, distance |-> distance,
                       turbidity |-> turbidity, albedo |-> albedo,
                       raised |-> r.raised, val |-> r.val]
           /\ UNCHANGED <<params, spawned, warnings, unsupported, sun, sun0, doc>>

WriteSunskylightPovray ==
    \E name \in Names, distance \in Distances, turbidity \in Turbidities :
        LET r == PovrayWriteSunskylight(name, sun, distance, turbidity)
        IN /\ sun' = r.after
           /\ last' = [op |-> "write_sunskylight", backend |-> "Povray",
                       name |-> name, direction |-> sun, distance |-> distance,
                       turbidity |-> turbidity,
                       raised |-> r.raised, val |-> r.val]
           /\ UNCHANGED <<params, spawned, warnings, unsupported, sun0, doc>>

InitEmit ==
    /\ params = [Prefix |-> << >>, CyclesPath |-> << >>,
                 CyclesParameters |-> << >>, PovRayPath |-> << >>,
                 PovRayParameters |-> << >>]
    /\ spawned = 0
    /\ warnings = 0
    /\ unsupported = 0
    /\ sun \in SunDirections
    /\ sun0 = sun
    /\ last = NoCall
    /\ doc = << >>

NextEmit ==
    \/ WriteObjectCycles
    \/ WriteArealightCycles
    \/ WriteSunskylightCycles
    \/ WriteSunskylightPovray

SpecEmit == InitEmit /\ [][NextEmit]_vars

-----------------------------------------------------------------------------
(* Export of a scene: the caller calls one write function per entity, each  *)
(* entity under a name of its own, all of one backend, and concatenates the *)
(* fragments returned into the document.                                    *)

DocNames == {doc[i].name : i \in 1..Len(doc)}

DocBackend(backend) ==
    IF doc = << >> THEN TRUE ELSE doc[1].backend = backend

\* the shader names that a Cycles material fragment declares
\* (<shader name="...">)
DeclaredShaders(frag) ==
    IF frag.kind = "passthrough"
    THEN {frag.text[i + 1].n : i \in {j \in 1..(Len(frag.text) - 1) :
                /\ frag.text[j].t = "lit"
                /\ frag.text[j].s = "<shader name="
                /\ frag.text[j + 1].t = "name"}}
    ELSE {frag.shader}

\* one call of the export: the call is recorded and the fragment, when one
\* was returned, concatenated
SceneStep(backend, name, call, declared, used) ==
    /\ name \notin DocNames
    /\ DocBackend(backend)
    /\ last' = call
    /\ doc' = IF call.raised = "None"
              THEN Append(doc, [name |-> name, backend |-> backend,
                                op |-> call.op, declared |-> declared,
                                used |-> used])
              ELSE doc

SceneObjectCycles ==
    \E name \in Names, mesh \in Meshes, material \in Materials :
        LET r == CyclesWriteObject(name, mesh, material)
        IN /\ SceneStep("Cycles", name,
                [op |-> "write_object", backend |-> "Cycles",
                 name |-> name, mesh |-> mesh, material |-> material,
                 raised |-> r.raised, val |-> r.val, mat |-> r.mat,
                 warned |-> r.warned, warning |-> r.warning],
                IF r.raised = "None" THEN DeclaredShaders(r.mat) ELSE {},
                IF r.raised = "None" THEN {r.val.state_shader} ELSE {})
           /\ warnings' = IF r.warned THEN warnings + 1 ELSE warnings
           /\ unsupported' = IF material.shadertype \notin MATERIALS
                             THEN unsupported + 1 ELSE unsupported
           /\ UNCHANGED <<params, spawned, sun, sun0>>

SceneCameraCycles ==
    \E name \in Names, pos \in Placements, updir \in Updirs,
       target \in Targets, fov \in Fovs :
        LET r == CyclesWriteCamera(name, pos, updir, target, fov)
        IN /\ SceneStep("Cycles", name,
                [op |-> "write_camera", backend |-> "Cycles", name |-> name,
                 pos |-> pos, updir |-> updir, target |-> target,
                 fov |-> fov, raised |-> r.raised, val |-> r.val],
                {}, {})
           /\ UNCHANGED <<params, spawned, warnings, unsupported, sun, sun0>>

ScenePointlightCycles ==
    \E name \in Names, pos \in PointPositions, color \in LightColors,
       power \in Powers :
        LET r == CyclesWritePointlight(name, pos, color, power)
        IN /\ SceneStep("Cycles", name,
                [op |-> "write_pointlight", backend |-> "Cycles",
                 name |-> name, pos |-> pos, color |-> color,
                 power |-> power, raised |-> r.raised, val |-> r.val],
                {r.val.shader}, {r.val.state_shader})
           /\ UNCHANGED <<params, spawned, warnings, unsupported, sun, sun0>>

SceneArealightCycles ==
    \E name \in Names, pos \in Placements, size_u \in Sizes, size_v \in Sizes,
       color \in LightColors, power \in Powers, transparent \in BOOLEAN :
        LET r == CyclesWriteArealight(name, pos, size_u, size_v, color, power,
                                      transparent)
        IN /\ SceneStep("Cycles", name,
                [op |-> "write_arealight", backend |-> "Cycles",
                 name |-> name, pos |-> pos, size_u |-> size_u,
                 size_v |-> size_v, color |-> color, power |-> power,
                 transparent |-> transparent,
                 raised |-> r.raised, val |-> r.val],
                IF r.raised = "None" THEN {r.val.shader} ELSE {},
                IF r.raised = "None" THEN {r.val.state_shader} ELSE {})
           /\ UNCHANGED <<params, spawned, warnings, unsupported, sun, sun0>>

SceneSunskylightCycles ==
    \E name \in Names, distance \in Distances, turbidity \in Turbidities,
       albedo \in Albedos :
        LET r == CyclesWriteSunskylight(name, sun, distance, turbidity, albedo)
        IN /\ SceneStep("Cycles", name,
                [op |-> "write_sunskylight", backend |-> "Cycles",
                 name |-> name, direction |-> sun, distance |-> distance,
                 turbidity |-> turbidity, albedo |-> albedo,
                 raised |-> r.raised, val |-> r.val],
                {}, {})
           /\ UNCHANGED <<params, spawned, warnings, unsupported, sun, sun0>>

SceneImagelightCycles ==
    \E name \in Names, image \in Images :
        LET r == CyclesWriteImagelight(name, image)
        IN /\ SceneStep("Cycles", name,
                [op |-> "write_imagelight", backend |-> "Cycles",
                 name |-> name, image |-> image,
                 raised |-> r.raised, val |-> r.val],
                {}, {})
           /\ UNCHANGED <<params, spawned, warnings, unsupported, sun, sun0>>

SceneObjectPovray ==
    \E name \in Names, mesh \in Meshes, color \in ObjectColors,
       alpha \in Alphas :
        LET r == PovrayWriteObject(name, mesh, color, alpha)
        IN /\ SceneStep("Povray", name,
                [op |-> "write_object", backend |-> "Povray", name |-> name,
                 mesh |-> mesh, color |-> color, alpha |-> alpha,
                 raised |-> r.raised, val |-> r.val],
                {}, {})
           /\ UNCHANGED <<params, spawned, warnings, unsupported, sun, sun0>>

SceneCameraPovray ==
    \E name \in Names, pos \in Placements, updir \in Updirs,
       target \in Targets :
        LET r == PovrayWriteCamera(name, pos, updir, target)
        IN /\ SceneStep("Povray", name,
                [op |-> "write_camera", backend |-> "Povray", name |-> name,
                 pos |-> pos, updir |-> updir, target |-> target,
                 raised |-> r.raised, val |-> r.val],
                {}, {})
           /\ UNCHANGED <<params, spawned, warnings, unsupported, sun, sun0>>

ScenePointlightPovray ==
    \E name \in Names, pos \in PointPositions, color \in LightColors,
       power \in Powers :
        LET r == PovrayWritePointlight(name, pos, color, power)
        IN /\ SceneStep("Povray", name,
                [op |-> "write_pointlight", backend |-> "Povray",
                 name |-> name, pos |-> pos, color |-> color,
                 power |-> power, raised |-> r.raised, val |-> r.val],
                {}, {})
           /\ UNCHANGED <<params, spawned, warnings, unsupported, sun, sun0>>

SceneArealightPovray ==
    \E name \in Names, pos \in Placements, size_u \in Sizes, size_v \in Sizes,
       color \in LightColors, power \in Powers :
        LET r == PovrayWriteArealight(name, pos, size_u, size_v, color, power)
        IN /\ SceneStep("Povray", name,
                [op |-> "write_arealight", backend |-> "Povray",
                 name |-> name, pos |-> pos, size_u |-> size_u,
                 size_v |-> size_v, color |-> color, power |-> power,
                 raised |-> r.raised, val |-> r.val],
                {}, {})
           /\ UNCHANGED <<params, spawned, warnings, unsupported, sun, sun0>>

SceneSunskylightPovray ==
    \E name \in Names, distance \in Distances, turbidity \in Turbidities :
        LET r == PovrayWriteSunskylight(name, sun, distance, turbidity)
        IN /\ SceneStep("Povray", name,
                [op |-> "write_sunskylight", backend |-> "Povray",
                 name |-> name, direction |-> sun, distance |-> distance,
                 turbidity |-> turbidity,
                 raised |-> r.raised, val |-> r.val],
                {}, {})
           /\ sun' = r.after
           /\ UNCHANGED <<params, spawned, warnings, unsupported, sun0>>

SceneImagelightPovray ==
    \E name \in Names, image \in Images :
        LET r == PovrayWriteImagelight(name, image)
        IN /\ SceneStep("Povray", name,
                [op |-> "write_imagelight", backend |-> "Povray",
                 name |-> name, image |-> image,
                 raised |-> r.raised, val |-> r.val],
                {}, {})
           /\ UNCHANGED <<params, spawned, warnings, unsupported, sun, sun0>>

InitScene == InitEmit

NextScene ==
    \/ SceneObjectCycles
    \/ SceneCameraCycles
    \/ ScenePointlightCycles
    \/ SceneArealightCycles
    \/ SceneSunskylightCycles
    \/ SceneImagelightCycles
    \/ SceneObjectPovray
    \/ SceneCameraPovray
    \/ ScenePointlightPovray
    \/ SceneArealightPovray
    \/ SceneSunskylightPovray
    \/ SceneImagelightPovray

SpecScene == InitScene /\ [][NextScene]_vars

InitRender ==
    /\ params \in ParamsSet
    /\ spawned = 0
    /\ warnings = 0
    /\ unsupported = 0
    /\ sun = [x |-> 0, y |-> 0, z |-> 1, den |-> 1]
    /\ sun0 = sun
    /\ last = NoCall
    /\ doc = << >>

NextRender == RenderCycles \/ RenderPovray

SpecRender == InitRender /\ [][NextRender]_vars

-----------------------------------------------------------------------------
(* Properties of render, checked under SpecRender *)

StoredParameters(backend) ==
    IF backend = "Cycles" THEN params.CyclesParameters
    ELSE params.PovRayParameters

WidthFlag(backend) ==
    IF backend = "Cycles" THEN <<"-", "-", "w", "i", "d", "t", "h", " ">>
    ELSE StrPlusW

HeightFlag(backend) ==
    IF backend = "Cycles" THEN <<"-", "-", "h", "e", "i", "g", "h", "t", " ">>
    ELSE StrPlusH

\* C1: in both backends, a render call made while the stored executable path
\* is empty returns the empty string and calls os.system not at all: the
\* number of spawned processes is what it was before the call.
C1_EmptyPathNoSpawn ==
    (last.op = "render" /\ last.rpath = << >>) =>
        /\ last.ret = << >>
        /\ ~last.spawn
        /\ spawned = last.spawnedBefore

\* a Cycles render refused for want of an executable, after a Povray render
\* that did spawn a process
C1_Witness ==
    /\ last.op = "render"
    /\ last.backend = "Cycles"
    /\ last.rpath = << >>
    /\ last.output # << >>
    /\ spawned = 1

\* C5: when the stored argument string holds a width (height) flag and render
\* is called with another width (height), the command holds the flag exactly
\* once, with the requested value.
C5_FlagReplacedNotDuplicated ==
    (last.op = "render" /\ last.spawn) =>
        LET stored == StoredParameters(last.backend)
            wf == WidthFlag(last.backend)
            hf == HeightFlag(last.backend)
            w == IntToStr(last.width)
            h == IntToStr(last.height)
        IN /\ (Contains(stored, wf) /\ ~Contains(stored, wf \o w)) =>
                (CountOcc(last.cmd, wf) = 1 /\ Contains(last.cmd, wf \o w))
           /\ (Contains(stored, hf) /\ ~Contains(stored, hf \o h)) =>
                (CountOcc(last.cmd, hf) = 1 /\ Contains(last.cmd, hf \o h))

\* C6: with the executable path set, render returns the caller's output path
\* when one was given and otherwise a non-empty default path made from the
\* scene file name.
C6_ReturnsOutputOrDefault ==
    (last.op = "render" /\ last.rpath # << >>) =>
        /\ last.output # << >> => last.ret = last.output
        /\ last.output = << >> =>
            /\ last.ret # << >>
            /\ Contains(last.ret, SplitExtRoot(last.project.PageResult))

C7_CmdOf(backend, prefix) ==
    IF backend = "Cycles"
    THEN CyclesCmd(params, last.project, prefix, last.external, last.output,
                   last.width, last.height)
    ELSE PovrayCmd(params, last.project, prefix, last.external, last.output,
                   last.width, last.height)

\* C7: the prefix argument of render is what the command starts with, before
\* the path of the executable, and calls that differ in the prefix argument
\* only build different commands.
C7_PrefixArgumentInserted ==
    (last.op = "render" /\ last.spawn) =>
        LET head == (IF last.prefix # << >> THEN last.prefix \o StrSpace
                     ELSE << >>) \o last.rpath
        IN /\ SubSeq(last.cmd, 1, Len(head)) = head
           /\ \A p \in PrefixArgs \ {last.prefix} :
                C7_CmdOf(last.backend, p) # last.cmd

C16_RetFor(status) ==
    IF last.backend = "Cycles"
    THEN CyclesRender(params, last.project, last.prefix, last.external,
                      last.output, last.width, last.height, status).ret
    ELSE PovrayRender(params, last.project, last.prefix, last.external,
                      last.output, last.width, last.height, status).ret

C16_Systems == {i \in 1..Len(last.events) : last.events[i].e = "system"}

\* C16: in both backends, with the executable path set, one render call
\* calls os.system exactly once, with the command it has built and already
\* logged, before it returns; and it returns the same value whatever exit
\* status os.system reports.
C16_SpawnOnceStatusIgnored ==
    (last.op = "render" /\ last.rpath # << >>) =>
        LET ev == last.events
        IN /\ Cardinality(C16_Systems) = 1
           /\ spawned = last.spawnedBefore + 1
           /\ \A i \in C16_Systems :
                /\ ev[i].cmd = last.cmd
                /\ ev[i].status = last.status
                /\ \E j \in 1..(i - 1) :
                    /\ ev[j].e = "PrintMessage"
                    /\ Contains(ev[j].text, ev[i].cmd)
                /\ \E k \in (i + 1)..Len(ev) : ev[k].e = "return"
           /\ ev[Len(ev)] = Return(last.ret)
           /\ \A k \in 1..(Len(ev) - 1) : ev[k].e # "return"
           /\ \A status \in ExitStatuses : C16_RetFor(status) = last.ret

\* a Povray render whose renderer exits with status 1 and which still
\* returns the output path
C16_Witness ==
    /\ last.op = "render"
    /\ last.backend = "Povray"
    /\ last.rpath # << >>
    /\ last.status = 1
    /\ last.output # << >>
    /\ last.ret = last.output
    /\ spawned = 1

\* C17: in Povray render, for every stored argument string, also one holding
\* another option that begins with +W or +H without digits after it, and
\* every width, height and non-empty output path, the command handed to
\* os.system holds +W<width>, +H<height> and +O<output>, and the scene file
\* path is its last token.
C17_SizeAndOutputInjected ==
    (last.op = "render" /\ last.backend = "Povray" /\ last.spawn
        /\ last.output # << >>) =>
        LET page == last.project.PageResult
            n == Len(last.cmd)
        IN /\ Contains(last.cmd, StrPlusW \o IntToStr(last.width) \o StrSpace)
           /\ Contains(last.cmd, StrPlusH \o IntToStr(last.height) \o StrSpace)
           /\ Contains(last.cmd, StrPlusO \o last.output \o StrSpace)
           /\ n > Len(page)
           /\ SubSeq(last.cmd, n - Len(page) + 1, n) = page
           /\ last.cmd[n - Len(page)] = " "

-----------------------------------------------------------------------------
(* Properties of the write functions, checked under SpecEmit *)

C2_ValidColor(c) ==
    \A k \in {"r", "g", "b"} : c[k].t = "num" /\ 0 <= c[k].v /\ c[k].v <= 10

\* C2: for a material whose tag is not in MATERIALS, _write_material returns
\* the fallback diffuse fragment, coloured with the material's default colour
\* when that colour is numeric and within [0, 1], and white otherwise.
C2_FallbackUsesDefaultColor ==
    (last.op = "write_object" /\ last.material.shadertype \notin MATERIALS) =>
        /\ last.raised = "None"
        /\ last.mat.kind = "fallback"
        /\ LET dc == last.material.default_color
           IN last.mat.color = IF C2_ValidColor(dc)
                               THEN <<dc.r.v, dc.g.v, dc.b.v>>
                               ELSE White

\* C3: _write_material returns a fragment for every material and never
\* raises.
C3_WriteMaterialTotal ==
    last.op = "write_object" => last.raised = "None"

\* C4: _write_material emits the fallback fragment and records one warning
\* exactly when the tag is absent from MATERIALS; with the tag present it
\* returns the matching emitter's output and records no warning; so the
\* warnings recorded number the calls made with an unsupported tag.
C4_WarningIffUnsupported ==
    /\ last.op = "write_object" =>
        LET tag == last.material.shadertype
            fell == last.raised = "None" /\ last.mat.kind = "fallback"
        IN /\ (fell /\ last.warned) <=> (tag \notin MATERIALS)
           /\ tag \in MATERIALS =>
                LET e == MaterialsCall(tag, last.name, last.material)
                IN /\ ~last.warned
                   /\ last.raised = e.raised
                   /\ last.mat = e.val
    /\ warnings = unsupported

\* C8: the write functions leave their arguments and the process-wide state
\* as they were: after any sequence of calls the caller's sun direction is
\* the vector it was, and no process was spawned.
C8_WriteFunctionsPure ==
    /\ sun = sun0
    /\ spawned = 0

\* C9: no write function raises: Cycles write_arealight returns a fragment
\* for an opaque light of width or height 0, and write_sunskylight returns
\* one for a sun direction of length 0.
C9_NoFaultOnMalformedScene ==
    last.op \in {"write_arealight", "write_sunskylight"} => last.raised = "None"

C10_Times(f, k) == [num |-> f.num * k, den |-> f.den]

C10_Eq(f, g) == f.num * g.den = g.num * f.den

\* C10: in Cycles write_arealight, other inputs fixed, a transparent light of
\* twice the power has twice the strength; an opaque light of twice the area
\* and the same power has half the strength; and the opaque strength is the
\* transparent strength of that power divided by width * height.
C10_AreaLightStrengthLaw ==
    (last.op = "write_arealight" /\ last.raised = "None") =>
        /\ \A p0 \in Powers, u0 \in Sizes, v0 \in Sizes :
            LET r0 == CyclesWriteArealight(last.name, last.pos, u0, v0,
                                           last.color, p0, last.transparent)
            IN r0.raised = "None" =>
                /\ ( /\ last.transparent
                     /\ last.power = 2 * p0
                     /\ last.size_u = u0
                     /\ last.size_v = v0 ) =>
                        C10_Eq(last.val.strength, C10_Times(r0.val.strength, 2))
                /\ ( /\ ~last.transparent
                     /\ last.power = p0
                     /\ last.size_u * last.size_v = 2 * u0 * v0 ) =>
                        C10_Eq(C10_Times(last.val.strength, 2), r0.val.strength)
        /\ ~last.transparent =>
            C10_Eq(C10_Times(last.val.strength, last.size_u * last.size_v),
                   CyclesWriteArealight(last.name, last.pos, last.size_u,
                                        last.size_v, last.color, last.power,
                                        TRUE).val.strength)

\* an opaque light of area 4, twice the area of the 1 x 2 light, emitted
C10_Witness ==
    /\ last.op = "write_arealight"
    /\ last.raised = "None"
    /\ ~last.transparent
    /\ last.size_u * last.size_v = 4
    /\ last.power = 10
    /\ last.val.strength = [num |-> 1000, den |-> 4]

C11_Elevation == AsinValue(last.val.sun_elevation)

\* C11 (as stated): for the sun direction (0, 1, 0), pointing along Y, the
\* elevation emitted by Cycles write_sunskylight is pi/2.
C11_ElevationAlongYIsHalfPi ==
    ( /\ last.op = "write_sunskylight"
      /\ last.backend = "Cycles"
      /\ last.direction = Vec(0, 1, 0) ) =>
        /\ last.raised = "None"
        /\ C11_Elevation = [exact |-> TRUE, halfpi |-> 1]

\* C11 (amended): the elevation emitted by Cycles write_sunskylight is
\* asin(z / |d|): pi/2 for a direction pointing along Z, and 0 for the
\* directions pointing along X or Y, (0, 1, 0) among them.
C11_ElevationFromZ ==
    ( /\ last.op = "write_sunskylight"
      /\ last.backend = "Cycles"
      /\ last.raised = "None" ) =>
        LET d == last.direction
        IN /\ (d.x = 0 /\ d.y = 0 /\ d.z > 0) =>
                C11_Elevation = [exact |-> TRUE, halfpi |-> 1]
           /\ d.z = 0 => C11_Elevation = [exact |-> TRUE, halfpi |-> 0]
           /\ last.val.sun_elevation.num * last.val.sun_elevation.num * Norm2(d)
                = d.z * d.z * last.val.sun_elevation.den
                    * last.val.sun_elevation.den

\* the sun pointing along Y emitted with elevation 0
C11_Witness ==
    /\ last.op = "write_sunskylight"
    /\ last.backend = "Cycles"
    /\ last.direction = Vec(0, 1, 0)
    /\ last.raised = "None"
    /\ C11_Elevation = [exact |-> TRUE, halfpi |-> 0]

-----------------------------------------------------------------------------
(* Properties of the scene export, checked under SpecScene *)

C12_EmptyMesh(mesh) == mesh.Points = << >> /\ mesh.Facets = << >>

C12_Counts ==
    IF last.backend = "Povray"
    THEN /\ last.val.len_vertices = Len(last.mesh.Points)
         /\ Len(last.val.vertices) = Len(last.mesh.Points)
         /\ last.val.len_normals = Len(last.mesh.Normals)
         /\ Len(last.val.normals) = Len(last.mesh.Normals)
         /\ last.val.len_indices = Len(last.mesh.Facets)
         /\ Len(last.val.indices) = Len(last.mesh.Facets)
    ELSE /\ Len(last.val.P) = Len(last.mesh.Points)
         /\ Len(last.val.verts) = Len(last.mesh.Facets)
         /\ Len(last.val.nverts) = Len(last.mesh.Facets)
         /\ \A i \in 1..Len(last.val.nverts) : last.val.nverts[i] = "3"

\* C12: for every mesh write_object emits counts equal to the input lengths
\* (Povray: vertex, normal and face-index counts; Cycles: as many points as
\* vertices and one "3" per face), and for an empty mesh it raises nothing
\* and emits a block with zero counts.
C12_CountsEqualLengths ==
    last.op = "write_object" =>
        /\ last.raised = "None" => C12_Counts
        /\ C12_EmptyMesh(last.mesh) => (last.raised = "None" /\ C12_Counts)

C13_Swapped(v, c) ==
    c = [c1 |-> v.x, c2 |-> v.z, c3 |-> v.y, den |-> v.den]

C13_Straight(v, c) ==
    c = [c1 |-> v.x, c2 |-> v.y, c3 |-> v.z, den |-> v.den]

C13_Povray ==
    /\ last.op = "write_object" =>
        /\ \A i \in 1..Len(last.mesh.Points) :
            C13_Swapped(last.mesh.Points[i], last.val.vertices[i])
        /\ \A i \in 1..Len(last.mesh.Normals) :
            C13_Swapped(last.mesh.Normals[i], last.val.normals[i])
    /\ last.op = "write_camera" =>
        /\ C13_Swapped(last.pos.Base, last.val.cam_location)
        /\ C13_Swapped(last.target, last.val.cam_look_at)
        /\ C13_Swapped(last.updir, last.val.cam_sky)
    /\ last.op = "write_pointlight" =>
        C13_Swapped(last.pos, last.val.location)
    /\ last.op = "write_arealight" =>
        /\ C13_Swapped(last.pos.Base, last.val.location)
        /\ C13_Swapped(RotMultVec(last.pos.Rotation, Vec(last.size_u, 0, 0)),
                       last.val.axis1)
        /\ C13_Swapped(RotMultVec(last.pos.Rotation, Vec(0, last.size_v, 0)),
                       last.val.axis2)
    /\ last.op = "write_sunskylight" =>
        C13_Swapped(WithLength(last.direction, last.distance),
                    last.val.light_source)

C13_Corner(k) ==
    LET su == IF k \in {2, 3} THEN last.size_u ELSE -last.size_u
        sv == IF k \in {3, 4} THEN last.size_v ELSE -last.size_v
    IN PlcMultVec(last.pos, Reduce(su, sv, 0, 2))

C13_Cycles ==
    /\ last.op = "write_object" =>
        \A i \in 1..Len(last.mesh.Points) :
            C13_Straight(last.mesh.Points[i], last.val.P[i])
    /\ last.op = "write_camera" =>
        /\ C13_Straight(last.pos.Base, last.val.translate)
        /\ C13_Straight(RotAxis(last.pos.Rotation), last.val.rotate_axis)
    /\ last.op = "write_pointlight" => C13_Straight(last.pos, last.val.co)
    /\ (last.op = "write_arealight" /\ last.transparent) =>
        LET u == RotMultVec(last.pos.Rotation, Vec(1, 0, 0))
            v == RotMultVec(last.pos.Rotation, Vec(0, 1, 0))
        IN /\ C13_Straight(last.pos.Base, last.val.co)
           /\ C13_Straight(u, last.val.axisu)
           /\ C13_Straight(v, last.val.axisv)
           /\ C13_Straight(Cross(u, v), last.val.dir)
    /\ (last.op = "write_arealight" /\ ~last.transparent) =>
        \A k \in 1..4 : C13_Straight(C13_Corner(k), last.val.P[k])

\* C13: each backend writes every vector in one component order: Povray
\* (x, z, y) in mesh vertices and normals, camera location, look-at and sky,
\* point-light position, area-light position and axes, sun location; Cycles
\* (x, y, z) in mesh points, camera translation and rotation axis,
\* point-light position, area-light position, axes, direction and corners.
C13_OnePermutationPerBackend ==
    (last.op # "none" /\ last.raised = "None") =>
        IF last.backend = "Povray" THEN C13_Povray ELSE C13_Cycles

\* a Povray point light at (1, 2, 3) written as <1,3,2>
C13_Witness ==
    /\ last.op = "write_pointlight"
    /\ last.backend = "Povray"
    /\ last.pos = Vec(1, 2, 3)
    /\ last.val.location = [c1 |-> 1, c2 |-> 3, c3 |-> 2, den |-> 1]

C14_Shaded == {"write_object", "write_pointlight", "write_arealight"}

\* C14: for Cycles entities of pairwise distinct names, emitted in any
\* order, the shader that a fragment's state element names is declared in
\* that fragment, and no two fragments of the document declare the same
\* shader name.
C14_FragmentsSelfContained ==
    /\ \A i \in 1..Len(doc) :
        (doc[i].backend = "Cycles" /\ doc[i].op \in C14_Shaded) =>
            doc[i].used \subseteq doc[i].declared
    /\ \A i, j \in 1..Len(doc) :
        (i # j /\ doc[i].backend = "Cycles") =>
            doc[i].declared \cap doc[j].declared = {}

C15_OnlySeparators(s) == \A i \in 1..Len(s) : s[i] \in {"/", "."}

\* C15: Cycles write_imagelight embeds the last component of the image path
\* and nothing of its directories; Povray write_imagelight embeds the image
\* path as given.
C15_ImageBaseName ==
    last.op = "write_imagelight" =>
        /\ last.raised = "None"
        /\ last.backend = "Povray" => last.val.hdr = last.image
        /\ last.backend = "Cycles" =>
            LET f == last.val.filename
                n == Len(last.image)
            IN /\ ~Contains(f, <<"/">>)
               /\ \E i \in 1..(n + 1) :
                    /\ i + Len(f) - 1 <= n
                    /\ SubSeq(last.image, i, i + Len(f) - 1) = f
                    /\ (i = 1 \/ last.image[i - 1] = "/")
                    /\ C15_OnlySeparators(SubSeq(last.image, i + Len(f), n))

\* the image d/e/h/ embedded as h
C15_Witness ==
    /\ last.op = "write_imagelight"
    /\ last.backend = "Cycles"
    /\ last.image = <<"d", "/", "e", "/", "h", "/">>
    /\ last.val.filename = <<"h">>

=============================================================================
